---- MODULE Spec2Model ----
(***************************************************************************)
(* DocxTranslator (src/main.py): the translation orchestrator.             *)
(*                                                                         *)
(* A run translates the eligible paragraphs of a document, either in       *)
(* parallel (process_document_parallel: one asyncio task per unique text,  *)
(* admitted through a semaphore, results applied afterwards) or one after  *)
(* the other (process_document with parallel=False).  A unit is translated *)
(* by stream_async_translation / stream_translation: a for loop over       *)
(* range(MAX_RETRIES) around a streamed service call, with handlers for    *)
(* rate-limit, network-class, cancellation and other exceptions.           *)
(*                                                                         *)
(* asyncio runs one coroutine at a time; a coroutine gives up the event    *)
(* loop only at an await that suspends.                                    *)
(* An action of the model is one such stretch of synchronous code, from    *)
(* the point where a coroutine is resumed to its next suspension or its    *)
(* end.  The cancellation predicate is a caller-supplied callback; its     *)
(* answer can change at any time (RequestCancel).  Where a stretch         *)
(* evaluates it several times in a row (before the semaphore, after it, on *)
(* entry of the translate operation, at the top of the loop), every one of *)
(* these checks raises the same CancelledError out of the task, so the     *)
(* stretch reads the answer once.                                          *)
(***************************************************************************)
EXTENDS Integers, Sequences, FiniteSets, TLC

\* ---------------------------------------------------------------- constants
MAX_RETRIES == 5
INITIAL_RETRY_DELAY == 1
MAX_NETWORK_RETRIES == 3
CACHE_SAVE_EVERY == 10
APPLY_CHECK_EVERY == 10
APPLY_REPORT_EVERY == 10

\* ------------------------------------------------------------------- bounds
\* longest list of eligible paragraphs
MaxOcc == 3
\* failing service responses the environment injects in one run
MaxFaults == 1
\* content chunks of one streamed response
MaxChunks == 1
MaxCredit == 4
MaxRun == 12
MaxKeys == 12

\* the trimmed texts a document draws from
Texts == {"Hello", "World"}

\* ------------------------------------------------------------------- values
\* A translated text or what stands in its place.  kind "translation": the
\* stripped content streamed for text `of`; "cached": the translation a
\* record loaded from the cache file holds for `of`; "empty": the empty
\* string; "None": Python's None; "none": nothing yet; the other kinds are the
\* sentinel strings.
Val(k, t) == [kind |-> k, of |-> t]
NoValue == Val("none", "")
PyNone == Val("None", "")
EmptyString == Val("empty", "")
Translation(t) == Val("translation", t)
CachedTranslation(t) == Val("cached", t)
RateLimitSentinel == Val("[Translation Error: Rate limit exceeded after 5 attempts]", "")
NetworkSentinel == Val("[Translation Error: Network error after 3 retry attempts]", "")
CanceledSentinel == Val("[Translation Canceled]", "")
ErrorSentinel == Val("[Translation Error: ...]", "")
Sentinels == {RateLimitSentinel, NetworkSentinel, CanceledSentinel, ErrorSentinel}

\* completion_tokens the service reports for a response to text t
CompletionTokens(t) == IF t = "Hello" THEN 1 ELSE 2

\* A cache record: translation and token_usage; usage 0 is the empty usage.
NoRecord == [translation |-> NoValue, usage |-> 0]
Record(tr, u) == [translation |-> tr, usage |-> u]

\* texts for which `not text.strip()` holds
Blanks == {"", " "}

Blank(t) == t \in Blanks

\* token_usage=None, the default of TranslationCache.set
NoUsage == -1

\* variant: a key function under which all texts collide
SameKey(t) == "8b1a9953c4611296a827abf8c47804d7"

\* get_cache_key: hashlib.md5(text.encode("utf-8")).hexdigest()
get_cache_key(t) ==
  CASE t = "Hello" -> "8b1a9953c4611296a827abf8c47804d7"
    [] t = "World" -> "f5a7924e621e84c9280a9a27e1bcb7f6"
    [] t = ""      -> "d41d8cd98f00b204e9800998ecf8427e"
    [] t = " "     -> "7215ee9c7d9dc229d2921a40e899ec5f"
    [] t = "a"     -> "0cc175b9c0f1b6a831c399e269772661"
    [] t = "b"     -> "92eb5ffee6ae2fec3ad71c777531578f"
    [] t = "c"     -> "4a8a08f09d37b73795649038408b5f33"
    [] t = "d"     -> "8277e0910d750195b448797616e091ad"
    [] t = "e"     -> "e1671797c52e15f763380b45e841ec32"
    [] t = "f"     -> "8fa14cdd754f91cc6554c9e71929cce7"
    [] t = "g"     -> "b2f5ff47436671b6e533d8dc3614845d"
    [] t = "h"     -> "2510c39011c5be704182423e3a695e91"
    [] t = "i"     -> "865c0c0b4ab0e063e5caa3387c1a8741"
    [] t = "j"     -> "363b122c528f54df4a0446b6bab05515"
    [] t = "k"     -> "8ce4b16b22b58894aa86c421e8759df3"
    [] t = "l"     -> "2db95e8e1a9267b7a1188556b2013b33"
    [] t = "m"     -> "6f8f57715090da2632453988d9a1501b"
    [] t = "n"     -> "7b8b965ad4bca0e41ab51de7b31363a1"

\* the keys a cache of this model can hold
Keys == {get_cache_key(t) : t \in Texts \cup Blanks}

\* TranslationCache.get
CacheGet(c, t) == c[get_cache_key(t)]

\* number of keys of the in-memory cache (len(self.cache))
CacheLen(c) == Cardinality({k \in DOMAIN c : c[k] # NoRecord})

\* ---------------------------------------------------------------- planning
\* The loop over enumerate(paragraphs_data): unique_tasks lists the unique
\* texts in first-seen order (index 1 is source_idx 0), task_map gives every
\* occurrence the index of its unique entry.
\* variant: a lookup that never finds the text among the unique entries
IndexOfNothing(seq, x, i) == 0

RECURSIVE IndexOf(_, _, _)
IndexOf(seq, x, i) ==
  IF i > Len(seq) THEN 0 ELSE IF seq[i] = x THEN i ELSE IndexOf(seq, x, i + 1)

\* variant: a repeated text is mapped to the newest unique entry
RECURSIVE PlanFromNewest(_, _, _, _)
PlanFromNewest(data, idx, utasks, tmap) ==
  IF idx > Len(data) THEN [unique_tasks |-> utasks, task_map |-> tmap]
  ELSE LET text == data[idx]
           seen == IndexOf(utasks, text, 1)
       IN IF seen # 0
          THEN PlanFromNewest(data, idx + 1, utasks, Append(tmap, Len(utasks)))
          ELSE PlanFromNewest(data, idx + 1, Append(utasks, text),
                              Append(tmap, Len(utasks) + 1))

RECURSIVE PlanFrom(_, _, _, _)
PlanFrom(data, idx, utasks, tmap) ==
  IF idx > Len(data) THEN [unique_tasks |-> utasks, task_map |-> tmap]
  ELSE LET text == data[idx]
           seen == IndexOf(utasks, text, 1)
       IN IF seen # 0
          THEN PlanFrom(data, idx + 1, utasks, Append(tmap, seen))
          ELSE PlanFrom(data, idx + 1, Append(utasks, text),
                        Append(tmap, Len(utasks) + 1))

Plan(data) == PlanFrom(data, 1, <<>>, <<>>)

\* -------------------------------------------------------------------- state
VARIABLES
  parallel,               \* process_document's parallel flag
  use_cache,              \* caching enabled
  max_concurrent,         \* configured concurrency limit
  document,               \* the input document: the paragraphs of its body
                          \* and those of its table cells (text, style name)
  paragraphs_data,        \* trimmed texts of the eligible paragraphs, in order
  service_usage,          \* where the service reports usage: "stream" (terminal
                          \* chunk), "whole" (whole-response call only), "none"
  reply_chunks,           \* content chunks of each streamed response (0: empty)
  unique_tasks,           \* unique texts in first-seen order
  task_map,               \* occurrence index -> index into unique_tasks
  cache,                  \* TranslationCache.cache (in memory)
  cache_file,             \* the cache file's contents
  total_tokens_received,  \* global tally of live completion tokens
  total_cached_tokens,    \* global tally of cached completion tokens
  cached_hits,            \* cached_hits of the run
  semaphore,              \* value of asyncio.Semaphore(max_concurrent)
  tasks,                  \* one record per unit (unique text / paragraph)
  output,                 \* text appended to each eligible paragraph
  progress_n,             \* progress_bar.n
  callback_n,             \* the completed value of the last progress_callback
                          \* call (-1: not called yet)
  bar_closed,             \* progress_bar.close() was called
  mainPc,                 \* position of the run's own coroutine / function
  applyIdx,               \* idx of the loop over paragraphs
  gatherExc,              \* first exception gather(*translation_tasks) saw
  pending,                \* exception the handler raises after draining
  outcome,                \* how the run ended
  saved,                  \* doc.save(output_file) was called
  cancelled,              \* what cancellation_check() answers now
  cancelSeenAtStart,      \* the check before starting tasks answered True
  faults,                 \* failing service responses injected so far
  startup_file,           \* what the cache file is when the run starts
  disk_ok,                \* writing the cache file succeeds
  written,                \* per text, the record last passed to set()
  lookup,                 \* what the last get() was asked and returned
  applied_at_cancel,      \* occurrences applied when the predicate turned
                          \* true during result application (-1: not then)
  overwrote               \* set() was called for a text that had a record

vars == <<parallel, use_cache, max_concurrent, document, paragraphs_data,
          service_usage,
          reply_chunks, unique_tasks,
          task_map, cache, cache_file, total_tokens_received,
          total_cached_tokens, cached_hits, semaphore, tasks, output,
          progress_n, callback_n, bar_closed, mainPc, applyIdx, gatherExc,
          pending, outcome, saved, cancelled, cancelSeenAtStart, faults,
          startup_file, disk_ok, written, lookup, applied_at_cancel,
          overwrote>>

config == <<parallel, use_cache, max_concurrent, document, paragraphs_data,
            service_usage, reply_chunks, startup_file, disk_ok>>

\* ------------------------------------------------------------------- inputs
\* every list of 1..MaxOcc texts, up to the naming of the texts: the first
\* paragraph reads "Hello"
Documents ==
  {d \in UNION {[1..n -> Texts] : n \in 1..MaxOcc} : d[1] = "Hello"}

\* the configured max_concurrent: one permit, or one for every unique text
\* (more permits than tasks admit nothing more)
ConcurrencyLimits == 1..Cardinality(Texts)

\* a streamed response is empty or has MaxChunks content chunks
ReplyLengths == {0, MaxChunks}

\* a run of one text: 1..MaxRun occurrences of "Hello"
LongDocuments == {[i \in 1..n |-> "Hello"] : n \in 1..MaxRun}

\* the styles asked for (target_styles_set)
TargetStyles == {"Normal"}

\* para.text.strip() on the texts a paragraph may hold
Trim(t) ==
  CASE t = " Hello " -> "Hello"
    [] t = " World " -> "World"
    [] t = " " -> ""
    [] OTHER -> t

\* the test both modes and count_translatable_elements apply to a paragraph
Eligible(p) == Trim(p.text) # "" /\ p.style \in TargetStyles

\* the order the paragraphs are visited in: doc.paragraphs, then the
\* paragraphs of the cells of the rows of the tables
Walk(d) == d.body \o d.table

\* the trimmed texts appended to paragraphs_data
RECURSIVE CollectFrom(_)
CollectFrom(ps) ==
  IF ps = <<>> THEN <<>>
  ELSE (IF Eligible(Head(ps)) THEN <<Trim(Head(ps).text)>> ELSE <<>>)
         \o CollectFrom(Tail(ps))

\* all_paragraphs: the place in Walk(d) of every collected paragraph
RECURSIVE PlacesFrom(_, _)
PlacesFrom(ps, j) ==
  IF ps = <<>> THEN <<>>
  ELSE (IF Eligible(Head(ps)) THEN <<j>> ELSE <<>>)
         \o PlacesFrom(Tail(ps), j + 1)

all_paragraphs(d) == PlacesFrom(Walk(d), 1)

\* a document of body paragraphs in a target style, holding the texts ts
Plain(ts) ==
  [body |-> [i \in 1..Len(ts) |-> [text |-> ts[i], style |-> "Normal"]],
   table |-> <<>>]

\* what a paragraph may be: text with surrounding blanks, bare text, blanks
\* only, and text in another style
RawParas ==
  {[text |-> " Hello ", style |-> "Normal"],
   [text |-> "World", style |-> "Normal"],
   [text |-> " ", style |-> "Normal"],
   [text |-> "Hello", style |-> "Caption"]}

\* every document of fewer than MaxOcc paragraphs, in the body and in tables
RawDocuments ==
  {d \in [body : UNION {[1..n -> RawParas] : n \in 0..(MaxOcc - 1)},
          table : UNION {[1..n -> RawParas] : n \in 0..(MaxOcc - 1)}] :
     Len(Walk(d)) < MaxOcc}

\* the same with either text as the second occurrence
WriteDocuments ==
  {[i \in 1..n |-> IF i = 2 THEN t ELSE "Hello"] : n \in 1..MaxRun, t \in Texts}

EmptyCache == [k \in Keys |-> NoRecord]

\* the cache file at startup: a JSON object of records, no file, a file
\* that is not JSON, or JSON that is not an object (a list, say)
FileKinds == {"mapping", "missing", "unparseable", "not_mapping"}

\* nothing was set() yet / get() was not called yet
NothingWritten == [t \in Texts \cup Blanks |-> NoRecord]
NoLookup == [asked |-> FALSE, text |-> "", record |-> NoRecord]

\* a cache file written by an earlier run: any set of texts, each with its
\* translation and the usage recorded for it
RECURSIVE FileOf(_)
FileOf(S) ==
  IF S = {} THEN EmptyCache
  ELSE LET t == CHOOSE x \in S : TRUE
       IN [FileOf(S \ {t}) EXCEPT ![get_cache_key(t)] =
             Record(CachedTranslation(t), CompletionTokens(t))]

CacheFiles == {FileOf(S) : S \in SUBSET Texts}

\* further texts, for caches of ten records and more
FurtherTexts == <<"a", "b", "c", "d", "e", "f", "g", "h", "i", "j", "k", "l",
                  "m", "n">>
FlushTexts == {FurtherTexts[i] : i \in 1..MaxKeys}
FlushKeys == {get_cache_key(t) : t \in FlushTexts}

\* a cache file of an earlier run with records for the first n further texts
LoadedFile(n) ==
  [k \in FlushKeys |->
     IF \E i \in 1..n : k = get_cache_key(FurtherTexts[i])
     THEN LET i == CHOOSE i \in 1..n : k = get_cache_key(FurtherTexts[i])
          IN Record(CachedTranslation(FurtherTexts[i]), 1)
     ELSE NoRecord]

LoadedFiles == {LoadedFile(n) : n \in 0..MaxKeys}

\* ---------------------------------------------------------------- the unit
\* A unit's record: the state of translate_with_semaphore and of the
\* stream_async_translation / stream_translation call it makes.
\*   pc: where the coroutine is suspended: created (not started), waiting
\*       (on the semaphore), call (streamed call in flight), fallback
\*       (whole-response call in flight), sleep_rl, sleep_net (backoff),
\*       done; within a stretch also attempt (top of the loop body), ret
\*       (the translate operation returned), cancel (CancelledError unwinds)
\*   it: values range(MAX_RETRIES) has yielded; attempt: the loop variable
\*   rank: the task was the rank-th of the run to finish (0: not finished)
\*   sets: calls of cache.set the unit has made
NewTask ==
  [pc |-> "created", it |-> 0, attempt |-> 0, network_retry_count |-> 0,
   retry_delay |-> INITIAL_RETRY_DELAY, got |-> 0, token_usage |-> 0,
   result |-> NoValue, exit |-> "none", cancel_requested |-> FALSE,
   stream_calls |-> 0, whole_calls |-> 0, rl_failures |-> 0,
   net_failures |-> 0, other_failures |-> 0, wait |-> 0,
   cache_hit |-> FALSE, rank |-> 0, sets |-> 0, usages |-> 0]

Units == 1..Len(tasks)

UnitText(k) == IF parallel THEN unique_tasks[k] ELSE paragraphs_data[k]

\* inside `async with semaphore`
InGatePcs == {"call", "fallback", "sleep_rl", "sleep_net"}
InGate(k) == tasks[k].pc \in InGatePcs

AllDone == \A j \in Units : tasks[j].pc = "done"

AnyInitOf(raws, files) ==
  /\ parallel \in BOOLEAN
  /\ use_cache \in BOOLEAN
  /\ max_concurrent \in ConcurrencyLimits
  /\ parallel = FALSE => max_concurrent = 1
  /\ document \in raws
  /\ paragraphs_data = CollectFrom(Walk(document))
  /\ service_usage \in {"stream", "whole", "none"}
  /\ reply_chunks \in ReplyLengths
  /\ cache_file \in files
  /\ use_cache = FALSE => cache_file = EmptyCache
  /\ unique_tasks = <<>>
  /\ task_map = <<>>
  /\ cache = EmptyCache
  /\ total_tokens_received = 0
  /\ total_cached_tokens = 0
  /\ cached_hits = 0
  /\ semaphore = 0
  /\ tasks = <<>>
  /\ output = [i \in 1..Len(paragraphs_data) |-> NoValue]
  /\ progress_n = 0
  /\ callback_n = -1
  /\ bar_closed = FALSE
  /\ mainPc = "start"
  /\ applyIdx = 0
  /\ gatherExc = "none"
  /\ pending = "none"
  /\ outcome = "none"
  /\ saved = FALSE
  /\ cancelled = FALSE
  /\ cancelSeenAtStart = FALSE
  /\ faults = 0
  /\ startup_file \in FileKinds
  /\ startup_file # "mapping" => cache_file = EmptyCache
  /\ disk_ok \in BOOLEAN
  /\ written = NothingWritten
  /\ lookup = NoLookup
  /\ applied_at_cancel = -1
  /\ overwrote = FALSE

AnyInitWith(docs, files) == AnyInitOf({Plain(d) : d \in docs}, files)

AnyInitOn(docs) == AnyInitWith(docs, CacheFiles)

AnyInit == AnyInitOn(Documents)

\* a run that finds a well-formed cache file (or none of its records) and a
\* writable cache directory
Init ==
  /\ AnyInit
  /\ startup_file = "mapping"
  /\ disk_ok

\* ------------------------------------------------- the translate operation
\* `return text, v` / `return v` from stream_(async_)translation
Return(r, v) == [r EXCEPT !.pc = "ret", !.result = v]

\* asyncio.CancelledError leaves stream_async_translation / the task body
RaiseCancelled(r) == [r EXCEPT !.pc = "cancel"]

\* `for attempt in range(MAX_RETRIES)`: the next value of the range, whatever
\* the body did to the loop variable; falling off the loop returns None
ForNext(r) ==
  IF r.it < MAX_RETRIES
  THEN [r EXCEPT !.attempt = r.it, !.it = r.it + 1, !.pc = "attempt"]
  ELSE Return(r, PyNone)

\* client.chat.completions.create(..., stream=True) is initiated
BeginAttempt(r) ==
  [r EXCEPT !.pc = "call", !.got = 0, !.token_usage = 0, !.stream_calls = @ + 1]

\* client.chat.completions.create(..., stream=False) is initiated
BeginFallback(r) == [r EXCEPT !.pc = "fallback", !.whole_calls = @ + 1]

\* variant: the last attempt backs off too instead of giving up
OnRateLimitOnceMore(r) ==
  LET f == [r EXCEPT !.rl_failures = @ + 1]
  IN IF r.attempt < MAX_RETRIES
     THEN [f EXCEPT !.pc = "sleep_rl", !.wait = r.retry_delay]
     ELSE Return(f, RateLimitSentinel)

\* except openai.RateLimitError
OnRateLimit(r) ==
  LET f == [r EXCEPT !.rl_failures = @ + 1]
  IN IF r.attempt < MAX_RETRIES - 1
     THEN [f EXCEPT !.pc = "sleep_rl", !.wait = r.retry_delay]
     ELSE Return(f, RateLimitSentinel)

\* variant: one network retry more than MAX_NETWORK_RETRIES
OnNetworkOnceMore(r) ==
  LET f == [r EXCEPT !.net_failures = @ + 1]
  IN IF r.network_retry_count <= MAX_NETWORK_RETRIES
     THEN [f EXCEPT !.network_retry_count = @ + 1,
                    !.pc = "sleep_net",
                    !.wait = 1 * (r.network_retry_count + 1)]
     ELSE Return(f, NetworkSentinel)

\* except (APIConnectionError, AuthenticationError, APITimeoutError, TimeoutError)
OnNetwork(r) ==
  LET f == [r EXCEPT !.net_failures = @ + 1]
  IN IF r.network_retry_count < MAX_NETWORK_RETRIES
     THEN [f EXCEPT !.network_retry_count = @ + 1,
                    !.pc = "sleep_net",
                    !.wait = 1 * (r.network_retry_count + 1)]
     ELSE Return(f, NetworkSentinel)

\* variant: the exception is not turned into a sentinel, the operation
\* ends without a result
OnOtherNoResult(r) == Return([r EXCEPT !.other_failures = @ + 1], PyNone)

\* except Exception
OnOther(r) == Return([r EXCEPT !.other_failures = @ + 1], ErrorSentinel)

\* the kinds of failure of a service call
Failures == {"rate", "net", "auth", "err"}

\* which except clause takes failure f: AuthenticationError is listed with
\* the network errors in stream_async_translation only
OnFailure(r, f, par) ==
  CASE f = "rate" -> OnRateLimit(r)
    [] f = "net" -> OnNetwork(r)
    [] f = "auth" -> IF par THEN OnNetwork(r) ELSE OnOther(r)
    [] OTHER -> OnOther(r)

\* variant: the rate-limit delay grows by INITIAL_RETRY_DELAY, not twofold
AfterSleepLinear(r) ==
  IF r.pc = "sleep_rl"
  THEN ForNext([r EXCEPT !.retry_delay = @ + INITIAL_RETRY_DELAY, !.wait = 0])
  ELSE ForNext([r EXCEPT !.attempt = @ - 1, !.wait = 0])

\* after the backoff sleep: `retry_delay *= 2` / `attempt -= 1`, then the loop
AfterSleep(r) ==
  IF r.pc = "sleep_rl"
  THEN ForNext([r EXCEPT !.retry_delay = @ * 2, !.wait = 0])
  ELSE ForNext([r EXCEPT !.attempt = @ - 1, !.wait = 0])

\* collected_content.strip(): empty when no content chunk arrived
Stripped(r, t) == IF r.got = 0 THEN EmptyString ELSE Translation(t)

\* the end of a successful attempt: reset the network counter, return
Complete(r, t) == Return([r EXCEPT !.network_retry_count = 0], Stripped(r, t))

\* TranslationCache.set: the new in-memory cache
CacheSet(c, t, tr, u) ==
  [c EXCEPT ![get_cache_key(t)] = Record(tr, IF u = NoUsage THEN 0 ELSE u)]

\* TranslationCache.save: the file after writing cache c; a failing write is
\* logged and leaves the file as it was
Save(c) == IF disk_ok THEN c ELSE cache_file

\* variant: set() never saves
SaveDueNever(c) == FALSE

\* TranslationCache.set saves when len(self.cache) % 10 == 0
SaveDue(c) == CacheLen(c) % CACHE_SAVE_EVERY = 0

\* variant: the result is stored whether or not it is empty
StoreResultUnguarded(r, t) ==
  IF use_cache
  THEN LET c == CacheSet(cache, t, r.result, r.token_usage)
       IN /\ cache' = c
          /\ cache_file' = IF SaveDue(c) THEN Save(c) ELSE cache_file
  ELSE UNCHANGED <<cache, cache_file>>

\* `if cache and translation: cache.set(text, translation, token_usage)`
\* at the end of a successful attempt of record r (already completed)
StoreResult(r, t) ==
  IF use_cache /\ r.result # EmptyString
  THEN LET c == CacheSet(cache, t, r.result, r.token_usage)
       IN /\ cache' = c
          /\ cache_file' = IF SaveDue(c) THEN Save(c) ELSE cache_file
  ELSE UNCHANGED <<cache, cache_file>>

\* the record of a completed attempt with its call of cache.set counted
Counted(r) ==
  IF use_cache /\ r.result # EmptyString THEN [r EXCEPT !.sets = @ + 1] ELSE r

\* progress_bar.update(1): nothing once the bar is closed
BarUpdate(n, closed) == IF closed THEN n ELSE n + 1

\* The task is done: the locals of the translate operation are gone; what
\* stays is how the task ended and the record of what it did.
Ended(r, how) ==
  [r EXCEPT !.pc = "done", !.exit = how, !.it = 0, !.attempt = 0,
            !.network_retry_count = 0, !.retry_delay = INITIAL_RETRY_DELAY,
            !.got = 0, !.token_usage = 0, !.wait = 0,
            !.rank = Cardinality({j \in DOMAIN tasks : tasks[j].pc = "done"}) + 1]

\* gather(*translation_tasks) keeps the first exception of a child
\* ("CancelledError" for a cancelled child)
FirstExc(kind) == IF mainPc = "gather" /\ gatherExc = "none" THEN kind ELSE gatherExc

\* variant: leaving `async with semaphore` by an exception keeps the permit
ReleasedOnReturnOnly(sem, held, how) ==
  IF held /\ how = "returned" THEN sem + 1 ELSE sem

\* `async with semaphore` releases the permit on every way out of its body
Released(sem, held, how) == IF held THEN sem + 1 ELSE sem

\* the step of task k that begins before `async with semaphore`: once let in
\* (and not cancelled) it passes progress_bar.n to the callback ("Preparing")
Preparing(k) == parallel /\ tasks[k].pc \in {"created", "waiting"}

\* Unit k's coroutine goes on from record r after a step of the translate
\* operation: still inside it, returned from it, or unwound by cancellation.
\*  parallel: `original, translated = await ...` (None cannot be unpacked:
\*  TypeError), progress_bar.update(1), progress_callback(progress_bar.n, ..),
\*  return; the semaphore is released on
\*  every way out of `async with` (sem: its value while k is still inside;
\*  held: k holds a permit).
\*  sequential: processed += 1, progress_bar.update(1),
\*  progress_callback(processed, ..),
\*  add_translation_to_paragraph(para, translated_text).
Settle(k, r, sem, held) ==
  IF r.pc = "ret" /\ parallel /\ r.result = PyNone
  THEN /\ tasks' = [tasks EXCEPT ![k] = Ended(r, "raised")]
       /\ semaphore' = Released(sem, TRUE, "raised")
       /\ gatherExc' = FirstExc("TypeError")
       /\ UNCHANGED <<progress_n, callback_n, output, applyIdx>>
  ELSE IF r.pc = "ret" /\ parallel
  THEN /\ tasks' = [tasks EXCEPT ![k] = Ended(r, "returned")]
       /\ semaphore' = Released(sem, TRUE, "returned")
       /\ progress_n' = BarUpdate(progress_n, bar_closed)
       /\ callback_n' = progress_n'
       /\ UNCHANGED <<gatherExc, output, applyIdx>>
  ELSE IF r.pc = "ret"
  THEN /\ tasks' = [tasks EXCEPT ![k] = Ended(r, "returned")]
       /\ progress_n' = BarUpdate(progress_n, bar_closed)
       /\ callback_n' = applyIdx + 1
       /\ output' = [output EXCEPT ![k] = r.result]
       /\ applyIdx' = applyIdx + 1
       /\ UNCHANGED <<semaphore, gatherExc>>
  ELSE IF r.pc = "cancel"
  THEN /\ tasks' = [tasks EXCEPT ![k] = Ended(r, "cancelled")]
       /\ semaphore' = Released(sem, held, "cancelled")
       /\ gatherExc' = FirstExc("CancelledError")
       /\ UNCHANGED <<progress_n, callback_n, output, applyIdx>>
  ELSE /\ tasks' = [tasks EXCEPT ![k] = r]
       /\ semaphore' = sem
       /\ callback_n' = IF Preparing(k) THEN progress_n ELSE callback_n
       /\ UNCHANGED <<gatherExc, progress_n, output, applyIdx>>

\* a step of unit k inside the semaphore (or of the sequential loop)
Step(k, r) == Settle(k, r, semaphore, TRUE)

\* variables Settle does not set
plan == <<unique_tasks, task_map>>
tallies == <<total_tokens_received, total_cached_tokens, cached_hits>>
store == <<cache, cache_file>>
run == <<bar_closed, mainPc, pending, outcome, saved, cancelSeenAtStart>>
env == <<faults, written, lookup, applied_at_cancel, overwrote>>

\* a value Python takes as true: a non-empty string
Truthy(v) == v \notin {NoValue, PyNone, EmptyString}

\* completion tokens recorded in the cache for the texts of seq[i..]
\* whose record has a translation (the loop over unique_tasks.items())
RECURSIVE CachedTokensFrom(_, _, _)
CachedTokensFrom(c, seq, i) ==
  IF i > Len(seq) THEN 0
  ELSE (IF Truthy(CacheGet(c, seq[i]).translation) THEN CacheGet(c, seq[i]).usage ELSE 0)
       + CachedTokensFrom(c, seq, i + 1)

CachedHitsOf(c, seq) ==
  Cardinality({i \in 1..Len(seq) : Truthy(CacheGet(c, seq[i]).translation)})

\* TranslationCache.__init__: the file's mapping, or no cache object
\* (an absent or unparseable file leaves the cache empty; JSON of another
\* shape is taken as self.cache as it is, and has no records to give)
LoadCache ==
  IF use_cache /\ startup_file = "mapping" THEN cache_file ELSE EmptyCache

\* self.cache is not a dict: self.cache.get(key) raises AttributeError
GetRaises == use_cache /\ startup_file = "not_mapping"

\* variant: a handler that lets CancelledError through as it is
ReraiseAsIs(exc) == exc

\* What the handlers of process_document_parallel raise once the tasks have
\* settled: InterruptedError for CancelledError, the exception itself otherwise.
Reraise(exc) == IF exc = "CancelledError" THEN "InterruptedError" ELSE exc

\* task.cancel() on every task that is not done
CancelAll(ts) ==
  [k \in DOMAIN ts |->
     IF ts[k].pc # "done" THEN [ts[k] EXCEPT !.cancel_requested = TRUE] ELSE ts[k]]

\* ------------------------------------------------------------- environment
\* the caller's predicate starts answering True
RequestCancel ==
  /\ mainPc # "end"
  /\ cancelled = FALSE
  /\ cancelled' = TRUE
  /\ applied_at_cancel' = IF mainPc = "apply" THEN applyIdx ELSE -1
  /\ UNCHANGED <<config, plan, tallies, store, semaphore, tasks, output,
                 progress_n, callback_n, applyIdx, gatherExc, run, faults, written, lookup,
                 overwrote>>

\* variant: a run goes on from the count the process has
TallyLeftOver == total_tokens_received

\* `total_tokens_received = 0`, `total_cached_tokens = 0` at the start of a run
TallyAtStart == 0

\* An earlier run of the same process has left its counts in the two globals.
EarlierRun ==
  /\ mainPc = "start"
  /\ total_tokens_received = 0
  /\ total_cached_tokens = 0
  /\ total_tokens_received' = MaxCredit
  /\ total_cached_tokens' \in {0, MaxCredit}
  /\ UNCHANGED <<config, plan, cached_hits, store, semaphore, tasks, output,
                 progress_n, callback_n, applyIdx, gatherExc, run, cancelled, env>>

\* ------------------------------------------------- process_document_parallel
\* Up to the first await: load the cache, plan, reset the tallies, count the
\* cached texts, create the tasks, check for cancellation before starting.
StartParallel ==
  /\ mainPc = "start"
  /\ parallel
  /\ LET p == Plan(paragraphs_data)
         c == LoadCache
         ts == [k \in 1..Len(p.unique_tasks) |-> NewTask]
     IN /\ unique_tasks' = p.unique_tasks
        /\ task_map' = p.task_map
        /\ cache' = c
        /\ total_tokens_received' = TallyAtStart
        /\ total_cached_tokens' =
             TallyAtStart + (IF use_cache THEN CachedTokensFrom(c, p.unique_tasks, 1) ELSE 0)
        /\ cached_hits' = IF use_cache THEN CachedHitsOf(c, p.unique_tasks) ELSE 0
        /\ semaphore' = max_concurrent
        /\ IF GetRaises
           THEN /\ outcome' = "AttributeError"
                /\ mainPc' = "end"
                /\ UNCHANGED <<tasks, bar_closed, pending, cancelSeenAtStart>>
           ELSE IF cancelled
           THEN /\ outcome' = outcome
                /\ tasks' = CancelAll(ts)
                /\ bar_closed' = TRUE
                /\ mainPc' = "drain"
                /\ pending' = Reraise("CancelledError")
                /\ cancelSeenAtStart' = TRUE
           ELSE /\ tasks' = ts
                /\ mainPc' = "gather"
                /\ UNCHANGED <<outcome, bar_closed, pending, cancelSeenAtStart>>
  /\ UNCHANGED <<config, cache_file, output, progress_n, callback_n, applyIdx, gatherExc,
                 saved, cancelled, env>>

\* gather(*translation_tasks) returns all results; the check before applying
GatherReturns ==
  /\ mainPc = "gather"
  /\ gatherExc = "none"
  /\ AllDone
  /\ IF cancelled
     THEN /\ bar_closed' = TRUE
          /\ mainPc' = "drain"
          /\ pending' = Reraise("CancelledError")
     ELSE /\ mainPc' = "apply"
          /\ UNCHANGED <<bar_closed, pending>>
  /\ UNCHANGED <<config, plan, tallies, store, semaphore, tasks, output,
                 progress_n, callback_n, applyIdx, gatherExc, outcome, saved, cancelled,
                 cancelSeenAtStart, env>>

\* gather(*translation_tasks) raises a child's exception: the handler of
\* CancelledError, or of Exception, closes the bar and cancels what is not done
GatherRaises ==
  /\ mainPc = "gather"
  /\ gatherExc # "none"
  /\ bar_closed' = TRUE
  /\ tasks' = CancelAll(tasks)
  /\ mainPc' = "drain"
  /\ pending' = Reraise(gatherExc)
  /\ UNCHANGED <<config, plan, tallies, store, semaphore, output, progress_n, callback_n,
                 applyIdx, gatherExc, outcome, saved, cancelled,
                 cancelSeenAtStart, env>>

\* variant: a handler that raises without awaiting the cancelled tasks
DrainReadyAtOnce == TRUE

\* gather(*tasks, return_exceptions=True) returns, the handler raises
DrainReady == AllDone

DrainDone ==
  /\ mainPc = "drain"
  /\ DrainReady
  /\ outcome' = pending
  /\ mainPc' = "end"
  /\ UNCHANGED <<config, plan, tallies, store, semaphore, tasks, output,
                 progress_n, callback_n, bar_closed, applyIdx, gatherExc, pending, saved,
                 cancelled, cancelSeenAtStart, env>>

\* translations_dict: source index -> translation returned by its task
TranslationOf(source_idx) == tasks[source_idx].result

\* variant: the results are taken in the order the tasks finished
ApplyLookupByRank(idx) ==
  TranslationOf(CHOOSE k \in Units : tasks[k].rank = task_map[idx])

\* the occurrence's text to write: task_map, then translations_dict
ApplyLookup(idx) == TranslationOf(task_map[idx])

\* variant: the predicate is asked at the first occurrence only
ApplyChecksFirstOnly(idx) == idx = 0

\* `idx % 10 == 0`: the occurrences at which the apply loop asks the predicate
ApplyChecks(idx) == idx % APPLY_CHECK_EVERY = 0

\* `progress_callback and idx % 10 == 0`: the occurrences after whose
\* writing the apply loop passes progress_bar.n to the callback
ApplyReports(idx) == idx % APPLY_REPORT_EVERY = 0

\* one iteration of `for idx, para in enumerate(all_paragraphs)`
\* (applyIdx is the 0-based idx; paragraph applyIdx + 1 is written)
ApplyParagraph ==
  /\ mainPc = "apply"
  /\ applyIdx < Len(paragraphs_data)
  /\ IF ApplyChecks(applyIdx) /\ cancelled
     THEN /\ bar_closed' = TRUE
          /\ mainPc' = "drain"
          /\ pending' = Reraise("CancelledError")
          /\ UNCHANGED <<output, applyIdx, callback_n>>
     ELSE /\ output' = [output EXCEPT ![applyIdx + 1] = ApplyLookup(applyIdx + 1)]
          /\ applyIdx' = applyIdx + 1
          /\ callback_n' = IF ApplyReports(applyIdx) THEN progress_n ELSE callback_n
          /\ UNCHANGED <<bar_closed, mainPc, pending>>
  /\ UNCHANGED <<config, plan, tallies, store, semaphore, tasks, progress_n,
                 gatherExc, outcome, saved, cancelled, cancelSeenAtStart, env>>

\* add_translation_to_paragraph raises for the occurrence at hand: the loop's
\* `except Exception` logs it, progress_bar.update(1), continue (the report
\* at the end of the loop body is not reached)
ApplyRaises ==
  /\ mainPc = "apply"
  /\ applyIdx < Len(paragraphs_data)
  /\ ~(ApplyChecks(applyIdx) /\ cancelled)
  /\ progress_n' = BarUpdate(progress_n, bar_closed)
  /\ applyIdx' = applyIdx + 1
  /\ UNCHANGED <<config, plan, tallies, store, semaphore, tasks, output,
                 callback_n, gatherExc, run, cancelled, env>>

\* variant: a failed save is passed over and the run ends as completed
SaveRaisesUnnoticed ==
  /\ mainPc = "apply"
  /\ applyIdx = Len(paragraphs_data)
  /\ bar_closed' = TRUE
  /\ outcome' = "completed"
  /\ mainPc' = "end"
  /\ UNCHANGED <<config, plan, tallies, store, semaphore, tasks, output,
                 progress_n, callback_n, applyIdx, gatherExc, pending, saved,
                 cancelled, cancelSeenAtStart, env>>

\* doc.save(output_file) raises: the handler of Exception closes the bar,
\* cancels what is not done, awaits the tasks and raises the exception
SaveRaises ==
  /\ mainPc = "apply"
  /\ applyIdx = Len(paragraphs_data)
  /\ bar_closed' = TRUE
  /\ tasks' = CancelAll(tasks)
  /\ mainPc' = "drain"
  /\ pending' = Reraise("OSError")
  /\ UNCHANGED <<config, plan, tallies, store, semaphore, output, progress_n,
                 callback_n, applyIdx, gatherExc, outcome, saved, cancelled,
                 cancelSeenAtStart, env>>

\* variant: the document is saved while the loop is still running, too
SaveDocumentEarly ==
  /\ mainPc = "apply"
  /\ saved' = TRUE
  /\ IF applyIdx = Len(paragraphs_data)
     THEN /\ bar_closed' = TRUE /\ outcome' = "completed" /\ mainPc' = "end"
          /\ callback_n' = Len(paragraphs_data)
     ELSE UNCHANGED <<bar_closed, outcome, mainPc, callback_n>>
  /\ UNCHANGED <<config, plan, tallies, store, semaphore, tasks, output,
                 progress_n, applyIdx, gatherExc, pending, cancelled,
                 cancelSeenAtStart, env>>

\* after the loop: close the bar, doc.save(output_file), final progress
SaveDocument ==
  /\ mainPc = "apply"
  /\ applyIdx = Len(paragraphs_data)
  /\ bar_closed' = TRUE
  /\ saved' = TRUE
  /\ outcome' = "completed"
  /\ mainPc' = "end"
  /\ callback_n' = Len(paragraphs_data)
  /\ UNCHANGED <<config, plan, tallies, store, semaphore, tasks, output,
                 progress_n, applyIdx, gatherExc, pending, cancelled,
                 cancelSeenAtStart, env>>

\* ------------------------------------------------- translate_with_semaphore
\* variant: a gate that lets a task in when no permit is free
CanAcquireAtZero == semaphore >= 0

\* variant: a gate that admits no task
CanAcquireNever == FALSE

\* Semaphore.acquire succeeds at once when a permit is free
CanAcquire == semaphore > 0

\* the task's own look into the cache, inside the semaphore
TaskCacheHit(k) == use_cache /\ Truthy(CacheGet(cache, UnitText(k)).translation)

\* variant: the translate operation never finds a record
TranslateCacheMiss(t) == FALSE

\* the translate operation's cache lookup: any record found is used
TranslateCacheHit(t) == use_cache /\ CacheGet(cache, t) # NoRecord

\* the translate operation from its entry to its first service call: a
\* cached record is returned, otherwise the loop starts
\* variant: no check for blank text before the cache lookup
TranslateEntryUnguarded(r, t) ==
  IF TranslateCacheHit(t)
  THEN Return([r EXCEPT !.cache_hit = TRUE], CacheGet(cache, t).translation)
  ELSE BeginAttempt(ForNext(r))

\* (`if not text.strip(): return text, ""` comes first)
TranslateEntry(r, t) ==
  IF Blank(t) THEN Return(r, EmptyString)
  ELSE IF TranslateCacheHit(t)
  THEN Return([r EXCEPT !.cache_hit = TRUE], CacheGet(cache, t).translation)
  ELSE BeginAttempt(ForNext(r))

\* completion tokens the translate operation credits to the cached tally
EntryCredit(t) ==
  IF ~Blank(t) /\ TranslateCacheHit(t) THEN CacheGet(cache, t).usage ELSE 0

\* Task k inside the semaphore, the predicate answering False: a hit of the
\* task's own cache check returns at once, otherwise the translate
\* operation is entered.
Admitted(k) ==
  IF TaskCacheHit(k)
  THEN Return([tasks[k] EXCEPT !.cache_hit = TRUE],
              CacheGet(cache, UnitText(k)).translation)
  ELSE TranslateEntry(tasks[k], UnitText(k))

\* variant: the task's own cache hit credits the recorded usage once more
AdmittedCreditAgain(k) == CacheGet(cache, UnitText(k)).usage

\* completion tokens credited when task k is admitted: none at the task's
\* own cache hit
AdmittedCredit(k) == IF TaskCacheHit(k) THEN 0 ELSE EntryCredit(UnitText(k))

\* First step of task k: the check before the semaphore; with a free permit
\* on into the semaphore, up to the first service call.
TaskStart(k) ==
  /\ parallel
  /\ tasks[k].pc = "created"
  /\ ~tasks[k].cancel_requested
  /\ mainPc \in {"gather", "drain"}
  /\ IF cancelled
     THEN /\ Settle(k, RaiseCancelled(tasks[k]), semaphore, FALSE)
          /\ UNCHANGED tallies
     ELSE IF CanAcquire
     THEN /\ Settle(k, Admitted(k), semaphore - 1, TRUE)
          /\ total_cached_tokens' = total_cached_tokens + AdmittedCredit(k)
          /\ UNCHANGED <<total_tokens_received, cached_hits>>
     ELSE /\ tasks' = [tasks EXCEPT ![k].pc = "waiting"]
          /\ UNCHANGED <<semaphore, gatherExc, progress_n, callback_n, output, applyIdx, tallies>>
  /\ UNCHANGED <<config, plan, store, run, cancelled, env>>

\* A waiting task gets a permit: the check after acquiring, then on up to
\* the first service call.
TaskAcquire(k) ==
  /\ tasks[k].pc = "waiting"
  /\ ~tasks[k].cancel_requested
  /\ CanAcquire
  /\ IF cancelled
     THEN /\ Settle(k, RaiseCancelled(tasks[k]), semaphore - 1, TRUE)
          /\ UNCHANGED tallies
     ELSE /\ Settle(k, Admitted(k), semaphore - 1, TRUE)
          /\ total_cached_tokens' = total_cached_tokens + AdmittedCredit(k)
          /\ UNCHANGED <<total_tokens_received, cached_hits>>
  /\ UNCHANGED <<config, plan, store, run, cancelled, env>>

\* variant: the translate operation never asks the predicate
PollsNever == FALSE

\* the translate operation polls the predicate (stream_async_translation only)
Polls == parallel /\ cancelled

\* A content chunk arrives: the check during streaming, then accumulate.
ServiceChunk(k) ==
  /\ tasks[k].pc = "call"
  /\ ~tasks[k].cancel_requested
  /\ tasks[k].got < reply_chunks
  /\ IF Polls
     THEN Step(k, Return(tasks[k], CanceledSentinel))
     ELSE Step(k, [tasks[k] EXCEPT !.got = @ + 1])
  /\ UNCHANGED <<config, plan, tallies, store, run, cancelled, env>>

\* The terminal chunk carrying usage arrives: the check, then the tally.
ServiceUsage(k) ==
  /\ tasks[k].pc = "call"
  /\ ~tasks[k].cancel_requested
  /\ service_usage = "stream"
  /\ tasks[k].got = reply_chunks
  /\ tasks[k].token_usage = 0
  /\ IF Polls
     THEN /\ Step(k, Return(tasks[k], CanceledSentinel))
          /\ UNCHANGED tallies
     ELSE /\ Step(k, [tasks[k] EXCEPT !.token_usage = CompletionTokens(UnitText(k)),
                                          !.usages = @ + 1])
          /\ total_tokens_received' = total_tokens_received + CompletionTokens(UnitText(k))
          /\ UNCHANGED <<total_cached_tokens, cached_hits>>
  /\ UNCHANGED <<config, plan, store, run, cancelled, env>>

\* The stream ends: the check after streaming; without usage the
\* whole-response call is initiated, otherwise the attempt completes.
ServiceEnd(k) ==
  /\ tasks[k].pc = "call"
  /\ ~tasks[k].cancel_requested
  /\ tasks[k].got = reply_chunks
  /\ service_usage = "stream" => tasks[k].token_usage > 0
  /\ LET r == tasks[k]
         done == Complete(r, UnitText(k))
     IN IF Polls
        THEN /\ Step(k, Return(r, CanceledSentinel))
             /\ UNCHANGED store
        ELSE IF r.token_usage = 0
        THEN /\ Step(k, BeginFallback(r))
             /\ UNCHANGED store
        ELSE /\ Step(k, Counted(done))
             /\ StoreResult(done, UnitText(k))
  /\ UNCHANGED <<config, plan, tallies, run, cancelled, env>>

\* The whole-response call returns, with usage or without.
FallbackReturns(k) ==
  /\ tasks[k].pc = "fallback"
  /\ ~tasks[k].cancel_requested
  /\ LET t == UnitText(k)
         withUsage == service_usage = "whole"
         r == [tasks[k] EXCEPT !.token_usage = IF withUsage THEN CompletionTokens(t) ELSE 0,
                               !.usages = IF withUsage THEN @ + 1 ELSE @]
         done == Complete(r, t)
     IN /\ Step(k, Counted(done))
        /\ StoreResult(done, t)
        /\ total_tokens_received' =
             total_tokens_received + (IF withUsage THEN CompletionTokens(t) ELSE 0)
  /\ UNCHANGED <<config, plan, total_cached_tokens, cached_hits, run, cancelled, env>>

\* part of a response has arrived in the call unit k is waiting on
Late(k) == tasks[k].pc = "fallback" \/ tasks[k].got > 0 \/ tasks[k].token_usage > 0

\* A service call (streamed, at any point of the stream, or whole-response)
\* fails with f.
Fails(k, f) ==
  /\ tasks[k].pc \in {"call", "fallback"}
  /\ ~tasks[k].cancel_requested
  /\ faults' = faults + 1
  /\ Step(k, OnFailure(tasks[k], f, parallel))
  /\ UNCHANGED <<config, plan, tallies, store, run, cancelled, written, lookup,
                 applied_at_cancel, overwrote>>

\* any unit's call may fail, MaxFaults times in a run
ServiceFails(k, f) ==
  /\ faults < MaxFaults
  /\ Fails(k, f)

\* failures of unit k so far
FailuresOf(k) == tasks[k].rl_failures + tasks[k].net_failures + tasks[k].other_failures

\* every streamed call of one unit of the run may fail before its first
\* chunk, the other units' calls succeed
UnitFails(k, f) ==
  /\ \A j \in Units : j # k => FailuresOf(j) = 0
  /\ ~Late(k)
  /\ Fails(k, f)

\* The backoff sleep ends: the loop goes on, with the check before each
\* attempt (outside the try) and the next streamed call, or falls off its end.
Wake(k) ==
  /\ tasks[k].pc \in {"sleep_rl", "sleep_net"}
  /\ ~tasks[k].cancel_requested
  /\ LET r == AfterSleep(tasks[k])
     IN IF r.pc = "attempt"
        THEN IF Polls THEN Step(k, RaiseCancelled(r)) ELSE Step(k, BeginAttempt(r))
        ELSE Step(k, r)
  /\ UNCHANGED <<config, plan, tallies, store, run, cancelled, env>>

\* CancelledError is thrown into task k where it is suspended: before its
\* first step or on the semaphore it ends cancelled; in a service call the
\* translate operation catches it and returns the sentinel; in a backoff
\* sleep (inside an except clause) it propagates.
CancelDelivered(k) ==
  /\ tasks[k].cancel_requested
  /\ tasks[k].pc \in {"created", "waiting", "call", "fallback", "sleep_rl", "sleep_net"}
  /\ IF tasks[k].pc \in {"call", "fallback"}
     THEN Step(k, Return(tasks[k], CanceledSentinel))
     ELSE Settle(k, RaiseCancelled(tasks[k]), semaphore, InGate(k))
  /\ UNCHANGED <<config, plan, tallies, store, run, cancelled, env>>

\* ------------------------------------------- process_document (sequential)
\* Up to the loop: reset the tallies, load the cache.
StartSequential ==
  /\ mainPc = "start"
  /\ ~parallel
  /\ total_tokens_received' = TallyAtStart
  /\ total_cached_tokens' = TallyAtStart
  /\ cache' = LoadCache
  /\ tasks' = [k \in 1..Len(paragraphs_data) |-> NewTask]
  /\ mainPc' = "seq"
  /\ UNCHANGED <<config, plan, cached_hits, cache_file, semaphore, output,
                 progress_n, callback_n, bar_closed, applyIdx, gatherExc, pending, outcome,
                 saved, cancelled, cancelSeenAtStart, env>>

\* One eligible paragraph: the cancellation check, the cache statistics,
\* then stream_translation up to its first service call (or its cache hit).
SeqParagraph ==
  /\ mainPc = "seq"
  /\ applyIdx < Len(paragraphs_data)
  /\ tasks[applyIdx + 1].pc = "created"
  /\ LET k == applyIdx + 1
         r == tasks[k]
         hit == CacheGet(cache, UnitText(k))
     IN IF cancelled
        THEN /\ bar_closed' = TRUE
             /\ outcome' = "InterruptedError"
             /\ mainPc' = "end"
             /\ UNCHANGED <<tasks, semaphore, gatherExc, progress_n, callback_n, output,
                            applyIdx, tallies>>
        ELSE IF GetRaises
        THEN /\ bar_closed' = TRUE
             /\ outcome' = "AttributeError"
             /\ mainPc' = "end"
             /\ UNCHANGED <<tasks, semaphore, gatherExc, progress_n, callback_n, output,
                            applyIdx, tallies>>
        ELSE IF TranslateCacheHit(UnitText(k))
        THEN /\ cached_hits' = cached_hits + 1
             /\ total_cached_tokens' = total_cached_tokens + EntryCredit(UnitText(k))
             /\ tasks' = [tasks EXCEPT ![k] =
                            Ended(TranslateEntry(r, UnitText(k)), "returned")]
             /\ progress_n' = BarUpdate(progress_n, bar_closed)
             /\ callback_n' = applyIdx + 1
             /\ output' = [output EXCEPT ![k] = hit.translation]
             /\ applyIdx' = applyIdx + 1
             /\ UNCHANGED <<total_tokens_received, bar_closed, outcome, mainPc,
                            semaphore, gatherExc>>
        ELSE /\ tasks' = [tasks EXCEPT ![k] = TranslateEntry(r, UnitText(k))]
             /\ UNCHANGED <<tallies, bar_closed, outcome, mainPc, semaphore,
                            gatherExc, progress_n, callback_n, output, applyIdx>>
  /\ UNCHANGED <<config, plan, store, pending, saved, cancelled,
                 cancelSeenAtStart, env>>

\* After the loops: close the bar, cache.save(), doc.save(output_file).
SeqFinish ==
  /\ mainPc = "seq"
  /\ applyIdx = Len(paragraphs_data)
  /\ bar_closed' = TRUE
  /\ cache_file' = IF use_cache THEN Save(cache) ELSE cache_file
  /\ saved' = TRUE
  /\ outcome' = "completed"
  /\ mainPc' = "end"
  /\ callback_n' = Len(paragraphs_data)
  /\ UNCHANGED <<config, plan, tallies, cache, semaphore, tasks, output,
                 progress_n, applyIdx, gatherExc, pending, cancelled,
                 cancelSeenAtStart, env>>

\* ------------------------------------------------------------ specification
Next ==
  \/ RequestCancel
  \/ StartParallel
  \/ GatherReturns
  \/ GatherRaises
  \/ DrainDone
  \/ ApplyParagraph
  \/ SaveDocument
  \/ StartSequential
  \/ SeqParagraph
  \/ SeqFinish
  \/ \E k \in Units : TaskStart(k)
  \/ \E k \in Units : TaskAcquire(k)
  \/ \E k \in Units : ServiceChunk(k)
  \/ \E k \in Units : ServiceUsage(k)
  \/ \E k \in Units : ServiceEnd(k)
  \/ \E k \in Units : FallbackReturns(k)
  \/ \E k \in Units, f \in Failures : ServiceFails(k, f)
  \/ \E k \in Units : Wake(k)
  \/ \E k \in Units : CancelDelivered(k)

Spec == Init /\ [][Next]_vars

\* The same program in a process that may have run before.
TallyInit ==
  /\ Init
  /\ Len(paragraphs_data) < MaxOcc

TallyNext == EarlierRun \/ Next

TallySpec == TallyInit /\ [][TallyNext]_vars

\* The same program with a service that fails for one unit of the run as
\* often as it likes: the retry loop runs to exhaustion.
UnitInit ==
  /\ Init
  /\ Len(paragraphs_data) < MaxOcc
  /\ cache_file = EmptyCache
  /\ service_usage = "stream"
  /\ reply_chunks = MaxChunks

UnitNext ==
  \/ RequestCancel
  \/ StartParallel
  \/ GatherReturns
  \/ GatherRaises
  \/ DrainDone
  \/ ApplyParagraph
  \/ SaveDocument
  \/ StartSequential
  \/ SeqParagraph
  \/ SeqFinish
  \/ \E k \in Units : TaskStart(k)
  \/ \E k \in Units : TaskAcquire(k)
  \/ \E k \in Units : ServiceChunk(k)
  \/ \E k \in Units : ServiceUsage(k)
  \/ \E k \in Units : ServiceEnd(k)
  \/ \E k \in Units, f \in Failures : UnitFails(k, f)
  \/ \E k \in Units : Wake(k)
  \/ \E k \in Units : CancelDelivered(k)

UnitSpec == UnitInit /\ [][UnitNext]_vars

\* The run on documents that also hold blank paragraphs, paragraphs in other
\* styles and table paragraphs, without a cache file.
DocInit ==
  /\ AnyInitOf(RawDocuments, {EmptyCache})
  /\ max_concurrent = 1
  /\ startup_file = "mapping"
  /\ disk_ok
  /\ service_usage = "stream"
  /\ reply_chunks = MaxChunks

DocSpec == DocInit /\ [][UnitNext]_vars

\* The same program with a service that never fails, and any cache file and
\* cache directory: the file may be absent, unparseable or of another shape,
\* and writing it may fail.
FileInit ==
  /\ AnyInit
  /\ use_cache
  /\ service_usage = "stream"
  /\ reply_chunks = MaxChunks

FileNext ==
  \/ RequestCancel
  \/ StartParallel
  \/ GatherReturns
  \/ GatherRaises
  \/ DrainDone
  \/ ApplyParagraph
  \/ SaveDocument
  \/ StartSequential
  \/ SeqParagraph
  \/ SeqFinish
  \/ \E k \in Units : TaskStart(k)
  \/ \E k \in Units : TaskAcquire(k)
  \/ \E k \in Units : ServiceChunk(k)
  \/ \E k \in Units : ServiceUsage(k)
  \/ \E k \in Units : ServiceEnd(k)
  \/ \E k \in Units : CancelDelivered(k)

FileSpec == FileInit /\ [][FileNext]_vars

\* The parallel path over a long document of one text, with a service that
\* never fails: the apply loop passes its tenth occurrence. One text makes
\* one task, so no task waits for a permit.
ApplyInit ==
  /\ AnyInitOn(LongDocuments)
  /\ parallel
  /\ ~use_cache
  /\ max_concurrent = 1
  /\ service_usage = "stream"
  /\ reply_chunks = MaxChunks
  /\ startup_file = "mapping"
  /\ disk_ok

ApplyNext ==
  \/ RequestCancel
  \/ StartParallel
  \/ GatherReturns
  \/ GatherRaises
  \/ DrainDone
  \/ ApplyParagraph
  \/ SaveDocument
  \/ \E k \in Units : TaskStart(k)
  \/ \E k \in Units : ServiceChunk(k)
  \/ \E k \in Units : ServiceUsage(k)
  \/ \E k \in Units : ServiceEnd(k)
  \/ \E k \in Units : CancelDelivered(k)

ApplySpec == ApplyInit /\ [][ApplyNext]_vars

\* The parallel path over a long document of one or two texts, with a
\* service that never fails, a predicate that stays false and a document
\* whose paragraphs, or whose file, may refuse to be written.
WriteInit ==
  /\ AnyInitOn(WriteDocuments)
  /\ parallel
  /\ ~use_cache
  /\ max_concurrent = 1
  /\ service_usage = "stream"
  /\ reply_chunks = MaxChunks
  /\ startup_file = "mapping"
  /\ disk_ok

WriteNext ==
  \/ StartParallel
  \/ GatherReturns
  \/ DrainDone
  \/ ApplyParagraph
  \/ ApplyRaises
  \/ SaveDocument
  \/ SaveRaises
  \/ \E k \in Units : TaskStart(k)
  \/ \E k \in Units : TaskAcquire(k)
  \/ \E k \in Units : ServiceChunk(k)
  \/ \E k \in Units : ServiceUsage(k)
  \/ \E k \in Units : ServiceEnd(k)

WriteSpec == WriteInit /\ [][WriteNext]_vars

\* ------------------------------------------- the operations on their own
\* The cache object and the translate operation called directly, outside a
\* run: set() and get() in any order on any texts, and the translate
\* operation entered with any text, blank texts included.
\* cache.set(t, tr, u)
CacheSetStep(t, tr, u) ==
  /\ LET c == CacheSet(cache, t, tr, u)
     IN /\ cache' = c
        /\ cache_file' = IF SaveDue(c) THEN Save(c) ELSE cache_file
  /\ written' = [x \in DOMAIN written \cup {t} |->
                   IF x = t THEN Record(tr, u) ELSE written[x]]
  /\ lookup' = NoLookup
  /\ overwrote' = (overwrote \/ CacheGet(cache, t) # NoRecord)
  /\ UNCHANGED <<config, plan, tallies, semaphore, tasks, output, progress_n, callback_n,
                 applyIdx, gatherExc, run, cancelled, faults, applied_at_cancel>>

\* cache.get(t)
CacheGetStep(t) ==
  /\ lookup' = [asked |-> TRUE, text |-> t, record |-> CacheGet(cache, t)]
  /\ UNCHANGED <<config, plan, tallies, store, semaphore, tasks, output,
                 progress_n, callback_n, applyIdx, gatherExc, run, cancelled, faults,
                 written, applied_at_cancel, overwrote>>

\* stream_async_translation / stream_translation entered with text t, up to
\* its return or its first service call; the tally stays within MaxCredit
DirectTranslate(t) ==
  /\ total_cached_tokens + EntryCredit(t) <= MaxCredit
  /\ unique_tasks' = <<t>>
  /\ paragraphs_data' = <<t>>
  /\ tasks' = <<TranslateEntry(NewTask, t)>>
  /\ total_cached_tokens' = total_cached_tokens + EntryCredit(t)
  /\ UNCHANGED <<parallel, use_cache, max_concurrent, document, service_usage,
                 reply_chunks, startup_file, disk_ok, task_map,
                 total_tokens_received, cached_hits, store, semaphore, output,
                 progress_n, callback_n, applyIdx, gatherExc, run, cancelled, env>>

\* what can be passed to set() for text t
SetTranslations(t) == {Translation(t), CachedTranslation(t)}
SetUsages(t) == {NoUsage, CompletionTokens(t)}

\* TranslationCache.__init__ reads the file
CacheLoad ==
  /\ DOMAIN cache # DOMAIN cache_file
  /\ cache' = cache_file
  /\ UNCHANGED <<config, plan, tallies, cache_file, semaphore, tasks, output,
                 progress_n, callback_n, applyIdx, gatherExc, run, cancelled, env>>

OpInit ==
  /\ Init
  /\ use_cache
  /\ cache_file = EmptyCache
  /\ paragraphs_data = <<"Hello">>
  /\ max_concurrent = 1
  /\ service_usage = "stream"
  /\ reply_chunks = MaxChunks

OpNext ==
  \/ \E t \in Texts \cup {""} : \E tr \in SetTranslations(t), u \in SetUsages(t) :
       CacheSetStep(t, tr, u)
  \/ \E t \in Texts \cup Blanks : CacheGetStep(t)
  \/ \E t \in Texts \cup Blanks : DirectTranslate(t)

OpSpec == OpInit /\ [][OpNext]_vars

\* The cache object on its own with a file of any size: after loading it,
\* set() is called for the next text without a record or for a text that
\* has one.
FlushInit ==
  /\ AnyInitWith({<<"Hello">>}, LoadedFiles)
  /\ parallel
  /\ use_cache
  /\ max_concurrent = 1
  /\ service_usage = "stream"
  /\ reply_chunks = MaxChunks
  /\ startup_file = "mapping"
  /\ disk_ok

FlushNext ==
  \/ CacheLoad
  \/ \E i \in 1..MaxKeys :
       /\ DOMAIN cache = FlushKeys
       /\ i <= CacheLen(cache) + 1
       /\ CacheSetStep(FurtherTexts[i], Translation(FurtherTexts[i]), NoUsage)

FlushSpec == FlushInit /\ [][FlushNext]_vars

\* A parallel run under the event loop: a task that can run is run, a sleep
\* ends, and every service call returns or fails. Nothing obliges the
\* predicate to turn true.
LiveInit ==
  /\ Init
  /\ parallel
  /\ Len(paragraphs_data) < MaxOcc
  /\ cache_file = EmptyCache

\* the steps of the run itself: all but the predicate's change
Scheduled ==
  \/ StartParallel
  \/ GatherReturns
  \/ GatherRaises
  \/ DrainDone
  \/ ApplyParagraph
  \/ SaveDocument
  \/ \E k \in Units : TaskStart(k)
  \/ \E k \in Units : TaskAcquire(k)
  \/ \E k \in Units : ServiceChunk(k)
  \/ \E k \in Units : ServiceUsage(k)
  \/ \E k \in Units : ServiceEnd(k)
  \/ \E k \in Units : FallbackReturns(k)
  \/ \E k \in Units, f \in Failures : UnitFails(k, f)
  \/ \E k \in Units : Wake(k)
  \/ \E k \in Units : CancelDelivered(k)

LiveNext == RequestCancel \/ Scheduled

LiveSpec == LiveInit /\ [][LiveNext]_vars /\ WF_vars(Scheduled)

\* --------------------------------------------------------------- properties
\* tasks inside `async with semaphore`
Running == {k \in Units : InGate(k)}

\* service calls task k has initiated, streamed and whole-response
CallsOf(k) == tasks[k].stream_calls + tasks[k].whole_calls

\* C1: in a parallel run the number of tasks that have been admitted through
\* the semaphore and have not left it (waiting on a service call or sleeping
\* in a backoff) never exceeds max_concurrent, and the semaphore's value is
\* the number of permits not held.
C1_ConcurrencyBound ==
  parallel /\ mainPc # "start" =>
    /\ Cardinality(Running) <= max_concurrent
    /\ semaphore = max_concurrent - Cardinality(Running)

\* C1's case: the gate is full and a task waits for a permit
C1_GateFull ==
  /\ parallel
  /\ Cardinality(Running) = max_concurrent
  /\ \E k \in Units : tasks[k].pc = "waiting"

\* C2: no sequence of service outcomes of a unit makes the translate
\* operation return anything but a pair: no task of a parallel run ends by
\* raising, and the run does not end with an exception other than the
\* cancellation signal.
C2_UnitFailureNeverAborts ==
  parallel =>
    /\ \A k \in Units : tasks[k].exit # "raised" /\ tasks[k].result # PyNone
    /\ outcome \in {"none", "completed", "InterruptedError"}

\* C3: when the check before starting the tasks finds the predicate true, no
\* task ever initiates a service call, nothing is written or saved, and the
\* run ends by raising InterruptedError.
C3_PreStartCancellation ==
  cancelSeenAtStart =>
    /\ \A k \in Units : CallsOf(k) = 0
    /\ \A i \in DOMAIN output : output[i] = NoValue
    /\ ~saved
    /\ outcome \in {"none", "InterruptedError"}
    /\ mainPc = "end" => outcome = "InterruptedError"

\* C3's case: a run with two tasks created, cancelled before they started,
\* has ended
C3_CancelledBeforeStart ==
  /\ cancelSeenAtStart
  /\ mainPc = "end"
  /\ Len(tasks) > 1
  /\ \A k \in Units : tasks[k].exit = "cancelled"

\* C4: while the handler waits, every task that is not done has been asked to
\* cancel; a parallel run has raised (InterruptedError, or the unexpected
\* exception) only in a state where every task is done; the run raises once.
C4_DrainBeforeRaise ==
  parallel =>
    /\ mainPc = "drain" =>
         \A k \in Units : tasks[k].pc # "done" => tasks[k].cancel_requested
    /\ outcome \in {"InterruptedError", "TypeError"} => AllDone /\ mainPc = "end"
    /\ outcome = "InterruptedError" => pending = "InterruptedError"

\* C4's case: InterruptedError was raised after a task that was in a service
\* call or a backoff sleep when it was asked to cancel has settled
C4_InFlightDrained ==
  /\ parallel
  /\ outcome = "InterruptedError"
  /\ \E k \in Units : tasks[k].cancel_requested /\ tasks[k].stream_calls > 0

\* sum of a sequence of numbers
RECURSIVE SumSeq(_)
SumSeq(q) == IF q = <<>> THEN 0 ELSE Head(q) + SumSeq(Tail(q))

StreamCalls == SumSeq([k \in Units |-> tasks[k].stream_calls])
WholeCalls == SumSeq([k \in Units |-> tasks[k].whole_calls])

\* the distinct trimmed texts of the document
DocTexts == {paragraphs_data[i] : i \in DOMAIN paragraphs_data}

\* text t has a usable record in the cache the run loads
InCacheFile(t) == use_cache /\ Truthy(CacheGet(cache_file, t).translation)

\* the distinct texts that miss the cache
Misses == {t \in DocTexts : ~InCacheFile(t)}

\* what a successful translate operation returns for text t
Fresh(t) == IF reply_chunks = 0 THEN EmptyString ELSE Translation(t)

\* a parallel run that completed with no failing service call
CleanParallelRun == parallel /\ outcome = "completed" /\ faults = 0

FirstOccurrence(t) ==
  CHOOSE i \in DOMAIN paragraphs_data :
    paragraphs_data[i] = t /\ \A j \in 1..(i - 1) : paragraphs_data[j] # t

\* C6: once planned, task_map maps every occurrence to one unique entry,
\* whose text is the occurrence's; equal texts map to the same entry; no two
\* entries hold the same text; as many occurrences are mapped as the input
\* has; the unique entries are no more than the occurrences and are numbered
\* in first-seen order.
C6_PlannerInvariants ==
  parallel /\ mainPc # "start" =>
    /\ Len(task_map) = Len(paragraphs_data)
    /\ \A i \in DOMAIN paragraphs_data :
         /\ task_map[i] \in DOMAIN unique_tasks
         /\ unique_tasks[task_map[i]] = paragraphs_data[i]
    /\ \A i, j \in DOMAIN paragraphs_data :
         paragraphs_data[i] = paragraphs_data[j] => task_map[i] = task_map[j]
    /\ \A a, b \in DOMAIN unique_tasks :
         unique_tasks[a] = unique_tasks[b] => a = b
    /\ Len(unique_tasks) <= Len(paragraphs_data)
    /\ \A a, b \in DOMAIN unique_tasks :
         a < b => FirstOccurrence(unique_tasks[a]) < FirstOccurrence(unique_tasks[b])
    /\ Len(tasks) = Len(unique_tasks)

\* C6's case: a text repeated after another text came between
C6_RepeatedText ==
  /\ parallel
  /\ paragraphs_data = <<"Hello", "World", "Hello">>
  /\ unique_tasks = <<"Hello", "World">>
  /\ task_map = <<1, 2, 1>>

\* recorded usage of the texts of S in the cache file
RECURSIVE RecordedUsage(_)
RecordedUsage(S) ==
  IF S = {} THEN 0
  ELSE LET t == CHOOSE t \in S : TRUE
       IN CacheGet(cache_file, t).usage + RecordedUsage(S \ {t})

\* every text of the document has a record in the cache the run loads
AllCached == \A t \in DocTexts : InCacheFile(t)

\* C7: a parallel run over a document whose texts are all in the cache
\* makes no service call, leaves total_tokens_received at 0, has credited
\* the recorded usage to total_cached_tokens once for each unique text, and
\* on completion has written the cached translation to every occurrence.
C7_CacheHit ==
  parallel /\ AllCached /\ mainPc # "start" =>
    /\ StreamCalls + WholeCalls = 0
    /\ total_tokens_received = 0
    /\ total_cached_tokens = RecordedUsage(DocTexts)
    /\ outcome = "completed" =>
         \A i \in DOMAIN paragraphs_data :
           output[i] = CacheGet(cache_file, paragraphs_data[i]).translation

\* C7's case: a completed run over a document that repeats one cached text,
\* every task having returned the cached record
C7_ScenarioB ==
  /\ parallel
  /\ AllCached
  /\ outcome = "completed"
  /\ Len(paragraphs_data) > 1
  /\ DocTexts = {"Hello"}
  /\ \A k \in Units : tasks[k].cache_hit
  /\ total_cached_tokens = CompletionTokens("Hello")

\* the unit that translates occurrence i
UnitOf(i) == IF parallel THEN task_map[i] ELSE i

\* every service call unit k has initiated has failed with a rate-limit error
RateLimitedThroughout(k) ==
  /\ tasks[k].stream_calls > 0
  /\ tasks[k].rl_failures = CallsOf(k)

\* every service call unit k has initiated has failed with a network-class
\* error
NetworkFailedThroughout(k) ==
  /\ tasks[k].stream_calls > 0
  /\ tasks[k].net_failures = CallsOf(k)

\* no call of the run has failed other than with a rate-limit error
OnlyRateLimits ==
  \A k \in Units : tasks[k].net_failures = 0 /\ tasks[k].other_failures = 0

\* C8: a unit whose every service call raised the rate-limit error ends,
\* unless the run is cancelled, after MAX_RETRIES calls by returning the
\* rate-limit sentinel; a run whose only failures are rate-limit errors
\* raises nothing but the cancellation signal, and that only when cancelled;
\* when it has completed, the occurrences of such a unit show the sentinel
\* and the occurrences of units without failure show their translation.
C8_RateLimitedUnit ==
  /\ \A k \in Units :
       tasks[k].pc = "done" /\ RateLimitedThroughout(k) /\ ~cancelled =>
         /\ tasks[k].result = RateLimitSentinel
         /\ tasks[k].exit = "returned"
         /\ tasks[k].rl_failures = MAX_RETRIES
  /\ OnlyRateLimits =>
       /\ outcome \in {"none", "completed", "InterruptedError"}
       /\ outcome = "InterruptedError" => cancelled
  /\ outcome = "completed" =>
       \A i \in DOMAIN paragraphs_data :
         /\ RateLimitedThroughout(UnitOf(i)) => output[i] = RateLimitSentinel
         /\ FailuresOf(UnitOf(i)) = 0 => output[i] = Fresh(paragraphs_data[i])

\* C8's case: a completed run in which one text shows the rate-limit
\* sentinel after MAX_RETRIES rate-limit failures and another its
\* translation
C8_ScenarioC ==
  /\ outcome = "completed"
  /\ \E i, j \in DOMAIN paragraphs_data :
       /\ RateLimitedThroughout(UnitOf(i))
       /\ output[i] = RateLimitSentinel
       /\ output[j] = Translation(paragraphs_data[j])

\* C9: the rate-limit sentinel is returned only after MAX_RETRIES rate-limit
\* failures of the unit, and a unit with at most MAX_NETWORK_RETRIES
\* network-class failures and fewer than MAX_RETRIES rate-limit failures
\* (and no other failure) has not been given up.
C9_IndependentBudgets ==
  \A k \in Units :
    /\ tasks[k].result = RateLimitSentinel => tasks[k].rl_failures = MAX_RETRIES
    /\ ( /\ tasks[k].net_failures <= MAX_NETWORK_RETRIES
         /\ tasks[k].rl_failures < MAX_RETRIES
         /\ tasks[k].other_failures = 0 )
       => tasks[k].result \notin {RateLimitSentinel, NetworkSentinel, PyNone}

\* C10 as stated: a unit whose every attempt fails with a network-class
\* error is attempted at most MAX_NETWORK_RETRIES times.
C10_AtMostThreeAttempts ==
  \A k \in Units :
    NetworkFailedThroughout(k) => tasks[k].stream_calls <= MAX_NETWORK_RETRIES

\* C10 amended: a unit whose every attempt fails with a network-class error
\* is attempted at most MAX_NETWORK_RETRIES + 1 times (the first attempt and
\* MAX_NETWORK_RETRIES retries); its n-th failure is counted by
\* network_retry_count and followed by a wait of n x 1, for n up to
\* MAX_NETWORK_RETRIES; unless the run is cancelled it ends, after
\* MAX_NETWORK_RETRIES + 1 attempts, with the network sentinel.
C10_NetworkBudget ==
  \A k \in Units :
    NetworkFailedThroughout(k) =>
      /\ tasks[k].stream_calls <= MAX_NETWORK_RETRIES + 1
      /\ tasks[k].rl_failures = 0
      /\ tasks[k].pc = "sleep_net" =>
           /\ tasks[k].net_failures <= MAX_NETWORK_RETRIES
           /\ tasks[k].network_retry_count = tasks[k].net_failures
           /\ tasks[k].wait = tasks[k].net_failures * 1
      /\ tasks[k].pc = "done" /\ ~cancelled =>
           /\ tasks[k].result = NetworkSentinel
           /\ tasks[k].exit = "returned"
           /\ tasks[k].stream_calls = MAX_NETWORK_RETRIES + 1

\* C10's case: a unit has ended with the network sentinel after its
\* MAX_NETWORK_RETRIES + 1 attempts all failed
C10_NetworkExhausted ==
  \E k \in Units :
    /\ tasks[k].pc = "done"
    /\ NetworkFailedThroughout(k)
    /\ tasks[k].result = NetworkSentinel
    /\ tasks[k].stream_calls = MAX_NETWORK_RETRIES + 1

\* C11: the wait after a unit's i-th rate-limit failure (i = 0, 1, ...) is
\* INITIAL_RETRY_DELAY * 2^i; no wait follows the MAX_RETRIES-th attempt; a
\* unit whose every call was rate-limited makes at most MAX_RETRIES
\* attempts and, unless the run is cancelled, ends with the rate-limit
\* sentinel.
C11_RateLimitBackoff ==
  \A k \in Units :
    /\ tasks[k].pc = "sleep_rl" =>
         /\ tasks[k].rl_failures >= 1
         /\ tasks[k].wait = INITIAL_RETRY_DELAY * 2^(tasks[k].rl_failures - 1)
         /\ tasks[k].stream_calls < MAX_RETRIES
    /\ RateLimitedThroughout(k) =>
         /\ tasks[k].stream_calls <= MAX_RETRIES
         /\ tasks[k].stream_calls = MAX_RETRIES => tasks[k].pc = "done"
         /\ tasks[k].pc = "done" /\ ~cancelled => tasks[k].result = RateLimitSentinel

\* C11's case: a unit waits 8 after its fourth rate-limit failure in a row
C11_FourthBackoff ==
  \E k \in Units :
    /\ RateLimitedThroughout(k)
    /\ tasks[k].pc = "sleep_rl"
    /\ tasks[k].rl_failures = MAX_RETRIES - 1
    /\ tasks[k].wait = 8

\* C12: a task that finds the predicate true while streaming or right after
\* streaming ends cancelled: it returns no sentinel as its result and is not
\* counted as completed.  (A task the scheduler has not asked to cancel can
\* only have met the cancellation through the predicate.)
C12_MidAttemptCancelUnwinds ==
  \A k \in Units :
    ~tasks[k].cancel_requested => tasks[k].result # CanceledSentinel

\* C13: when a run with caching enabled has completed, the cache file holds
\* every record of the in-memory cache.
C13_FlushedAtRunEnd ==
  use_cache /\ outcome = "completed" => cache_file = cache

\* C14: get(t) returns the translation and the usage of the last set(t, ..)
\* (the empty usage when none was given), whatever was set or read for
\* other texts in between.
C14_CacheRoundTrip ==
  LET Stored(w) == [translation |-> w.translation,
                    usage |-> IF w.usage = NoUsage THEN 0 ELSE w.usage]
  IN  lookup.asked /\ written[lookup.text] # NoRecord =>
        lookup.record = Stored(written[lookup.text])

\* C14's case: a text set without usage is read back while records for the
\* two other texts are in the cache
C14_ReadBack ==
  /\ lookup.asked
  /\ lookup.text = "Hello"
  /\ written["Hello"] = Record(Translation("Hello"), NoUsage)
  /\ written["World"] # NoRecord
  /\ written[""] # NoRecord

\* C15: whatever the cache file is at startup (absent, unparseable, or JSON
\* that is no mapping of keys to records) and whether or not it can be
\* written, a run with caching enabled does not fail: it ends completed, or
\* cancelled by its caller.
C15_CacheNeverFailsRun ==
  use_cache /\ mainPc = "end" => outcome \in {"completed", "InterruptedError"}

\* what the service or the cache file gives for text t
Expected(t) ==
  IF InCacheFile(t) THEN CacheGet(cache_file, t).translation ELSE Fresh(t)

\* C16: in a parallel run whose service calls all succeed, the text written
\* for an occurrence depends on the document, the service's answer and the
\* cache file only, not on the order in which the tasks finished: the
\* occurrences are written in list order, each with the result of the
\* unique task it is mapped to.
C16_ApplicationDeterministic ==
  parallel /\ faults = 0 =>
    \A i \in DOMAIN output :
      /\ output[i] # NoValue <=> mainPc \in {"apply", "drain", "end"} /\ i <= applyIdx
      /\ output[i] # NoValue =>
           /\ output[i] = Expected(paragraphs_data[i])
           /\ output[i] = tasks[task_map[i]].result

\* C16's case: "Hello", "World", "Hello" written after the task for "World"
\* finished before the task for "Hello"
C16_OutOfOrderCompletion ==
  /\ parallel
  /\ faults = 0
  /\ outcome = "completed"
  /\ paragraphs_data = <<"Hello", "World", "Hello">>
  /\ tasks[2].rank < tasks[1].rank
  /\ \A i \in DOMAIN output : output[i] # NoValue

\* C17: a service call that fails with an exception of no listed class ends
\* the translate operation at once with the generic sentinel as its result:
\* the unit's task returns it, nothing is raised out of the task, and the
\* run goes on to its end with the other units' results.
C17_UncategorizedBecomesSentinel ==
  /\ \A k \in Units :
       tasks[k].other_failures > 0 =>
         /\ tasks[k].other_failures = 1
         /\ tasks[k].pc = "done"
         /\ tasks[k].exit = "returned"
         /\ tasks[k].result = ErrorSentinel
  /\ (\E k \in Units : tasks[k].other_failures > 0) =>
       /\ gatherExc # "TypeError"
       /\ mainPc = "end" => outcome \in {"completed", "InterruptedError"}
       /\ outcome = "completed" =>
            \A i \in DOMAIN output : output[i] = tasks[UnitOf(i)].result

\* C17's case: a completed parallel run over "Hello", "World" in which the
\* call for "Hello" raised an uncategorized exception and "World" was
\* translated
C17_OneUnitErrs ==
  /\ parallel
  /\ outcome = "completed"
  /\ paragraphs_data = <<"Hello", "World">>
  /\ tasks[1].other_failures = 1
  /\ output = <<ErrorSentinel, Translation("World")>>

\* C18: in the parallel and in the sequential path alike, a service call
\* that fails with an authentication error is handled as a network-class
\* failure: the unit sleeps for a retry, or, its network budget spent, gets
\* the network-error sentinel.
C18_AuthIsNetworkClass ==
  [][\A k \in Units :
       Fails(k, "auth") =>
         \/ tasks'[k].pc = "sleep_net"
         \/ tasks'[k].result = NetworkSentinel]_vars

\* C19: the translate operation entered with an empty or whitespace-only
\* text returns the empty translation at once: no service call is started,
\* no cache record is used or written, the token tallies stay as they were.
C19_BlankShortCircuits ==
  [][\A t \in Blanks :
       DirectTranslate(t) =>
         /\ tasks'[1].pc = "ret"
         /\ tasks'[1].result = EmptyString
         /\ tasks'[1].stream_calls = 0
         /\ tasks'[1].whole_calls = 0
         /\ ~tasks'[1].cache_hit
         /\ UNCHANGED <<store, tallies>>]_vars

\* C19's case: the operation has returned the empty translation for the
\* empty text while the cache holds a record under that text's key
C19_BlankWithRecord ==
  /\ Len(tasks) = 1
  /\ unique_tasks = <<"">>
  /\ tasks[1].result = EmptyString
  /\ CacheGet(cache, "") # NoRecord

\* C20: whatever rate-limit and network-class failures a unit meets, it
\* makes at most MAX_RETRIES + MAX_NETWORK_RETRIES streamed attempts, and
\* once its attempts are over (and it was not cancelled) it has a terminal
\* result: a translation or a sentinel.
C20_BoundedAttempts ==
  \A k \in Units :
    /\ tasks[k].stream_calls <= MAX_RETRIES + MAX_NETWORK_RETRIES
    /\ tasks[k].pc = "done" /\ tasks[k].other_failures = 0
         /\ tasks[k].exit # "cancelled" =>
           /\ tasks[k].exit = "returned"
           /\ tasks[k].result \in
                Sentinels \cup {Translation(UnitText(k)), EmptyString}

\* C21: in parallel mode a step that initiates a service call (a streamed
\* attempt or the whole-response call) is a step in which the predicate
\* answers False: the call follows the check with no suspension between,
\* also when the task wakes from a backoff sleep.
C21_NoCallOnceCancelled ==
  [][parallel =>
       \A k \in Units :
         \/ tasks'[k].stream_calls > tasks[k].stream_calls
         \/ tasks'[k].whole_calls > tasks[k].whole_calls
         => ~cancelled]_vars

\* C21's case: a task that slept after a rate-limit failure found the
\* predicate true on waking and unwound without another call
C21_RecheckAfterSleep ==
  \E k \in Units :
    /\ parallel
    /\ cancelled
    /\ tasks[k].rl_failures = 1
    /\ tasks[k].stream_calls = 1
    /\ tasks[k].pc = "done"
    /\ tasks[k].exit = "cancelled"
    /\ ~tasks[k].cancel_requested

\* the first occurrence index at or after a at which the apply loop asks
\* the predicate
NextCheck(a) == ((a + APPLY_CHECK_EVERY - 1) \div APPLY_CHECK_EVERY) * APPLY_CHECK_EVERY

\* C22 as stated: once the predicate has turned true during result
\* application, at most 10 further occurrences are written and the run ends
\* with InterruptedError.
C22_ApplyCancellationStops ==
  applied_at_cancel >= 0 =>
    /\ applyIdx - applied_at_cancel <= APPLY_CHECK_EVERY
    /\ mainPc = "end" => outcome = "InterruptedError"

\* C22 amended: once the predicate has turned true during result
\* application, at most 10 further occurrences are written; the run ends
\* with InterruptedError when a 10th occurrence is still to come, and
\* otherwise writes the remaining occurrences and completes.
C22_ApplyCancellation ==
  applied_at_cancel >= 0 =>
    /\ applyIdx - applied_at_cancel <= APPLY_CHECK_EVERY
    /\ applyIdx <= NextCheck(applied_at_cancel)
    /\ mainPc = "end" =>
         IF NextCheck(applied_at_cancel) < Len(paragraphs_data)
         THEN outcome = "InterruptedError" /\ ~saved
              /\ applyIdx = NextCheck(applied_at_cancel)
         ELSE outcome = "completed" /\ applyIdx = Len(paragraphs_data)

\* C22's case: twelve occurrences, the predicate turns true after three
\* were written, seven more are written and the run stops at index 10
C22_StoppedAtTenth ==
  /\ Len(paragraphs_data) = 12
  /\ applied_at_cancel = 3
  /\ applyIdx = 10
  /\ outcome = "InterruptedError"

SentinelReturned ==
  \E k \in Units : tasks[k].exit = "returned" /\ tasks[k].result = CanceledSentinel

\* C24: with a predicate that stays true once it is true, a saved document
\* holds no "[Translation Canceled]": a run in which a task returned that
\* sentinel applies no result, saves nothing and ends with
\* InterruptedError.
C24_NoCanceledSentinelSaved ==
  /\ saved => \A i \in DOMAIN output : output[i] # CanceledSentinel
  /\ SentinelReturned =>
       /\ \A i \in DOMAIN output : output[i] = NoValue
       /\ ~saved
       /\ mainPc = "end" => outcome = "InterruptedError"

\* in this step task k comes back from the translate operation and goes on
\* to progress_bar.update(1) and progress_callback(.., "Completed ..")
ReportsCompleted(k) ==
  /\ parallel
  /\ tasks[k].pc \in {"call", "fallback"}
  /\ tasks'[k].pc = "done"
  /\ tasks'[k].exit = "returned"

NoSentinelIn(c) ==
  \A key \in Keys :
    c[key] # NoRecord =>
      Truthy(c[key].translation) /\ c[key].translation \notin Sentinels

\* C26: no record of the cache or of the cache file ever holds a sentinel
\* or an empty translation; a step in which a unit ends with a sentinel
\* leaves the cache as it is; and during a run the in-memory cache changes
\* only in a step in which a unit's service call completes with a
\* non-empty translation, which is what is stored for the unit's text.
C26_SentinelsNeverCached ==
  [][/\ NoSentinelIn(cache') /\ NoSentinelIn(cache_file')
     /\ \A k \in Units :
          tasks'[k].result \in Sentinels /\ tasks[k].result \notin Sentinels
            => UNCHANGED store
     /\ cache' # cache /\ mainPc # "start" =>
          \E k \in Units :
            /\ tasks[k].pc \in {"call", "fallback"}
            /\ Truthy(tasks'[k].result)
            /\ tasks'[k].result \notin Sentinels
            /\ CacheGet(cache', UnitText(k)).translation = tasks'[k].result]_vars

\* C26's case: with caching enabled one unit has ended with the generic
\* sentinel and has no record, another unit's translation was stored
C26_SentinelNotStored ==
  /\ use_cache
  /\ \E k, j \in Units :
       /\ tasks[k].pc = "done"
       /\ tasks[k].result = ErrorSentinel
       /\ CacheGet(cache, UnitText(k)) = NoRecord
       /\ tasks[j].result = Translation(UnitText(j))
       /\ CacheGet(cache, UnitText(j)).translation = Translation(UnitText(j))

\* C27: within one run cache.set is called at most once for a text, in the
\* parallel and in the sequential path, however often the text occurs.
C27_SetOncePerKey ==
  /\ \A k \in Units : tasks[k].sets <= 1
  /\ \A t \in Texts :
       Cardinality({k \in Units : UnitText(k) = t /\ tasks[k].sets > 0}) <= 1

\* C27's case: a completed sequential run with caching over a document that
\* repeats "Hello": the first occurrence stored it, the second one hit
C27_RepeatedTextStoredOnce ==
  /\ ~parallel
  /\ use_cache
  /\ outcome = "completed"
  /\ Len(paragraphs_data) >= 2
  /\ paragraphs_data[1] = "Hello" /\ paragraphs_data[2] = "Hello"
  /\ tasks[1].sets = 1
  /\ tasks[2].cache_hit

\* records of cache c that differ from those of file f: what was written
\* since the last flush
Unflushed(c, f) == Cardinality({k \in DOMAIN c : c[k] # f[k]})

C29_GateNeverLeaks ==
  /\ [](parallel /\ mainPc # "start" =>
         /\ semaphore + Cardinality(Running) = max_concurrent
         /\ (AllDone => semaphore = max_concurrent))
  /\ [][\A k \in Units :
          parallel /\ tasks[k].pc # "done" /\ tasks'[k].pc = "done" =>
            semaphore' = IF InGate(k) THEN semaphore + 1 ELSE semaphore]_vars

\* C29's case: with one permit, a task left the gate by a propagated
\* exception and another task is inside the gate after it
C29_PermitPassedOn ==
  /\ parallel
  /\ max_concurrent = 1
  /\ \E j, k \in Units :
       /\ tasks[j].pc = "done"
       /\ tasks[j].exit = "raised"
       /\ InGate(k)

\* C30: whatever the service's outcomes, as long as every call returns or
\* fails, a parallel run ends: every task reaches its terminal state and
\* process_document_parallel returns or raises.
C30_ParallelRunEnds == <>(mainPc = "end" /\ AllDone /\ outcome # "none")

\* C30's case: with one permit and two tasks, one task went through every
\* attempt of its retry loop, and the run has ended
C30_EndedAfterRetries ==
  /\ mainPc = "end"
  /\ max_concurrent = 1
  /\ Len(tasks) = 2
  /\ \E k \in Units : tasks[k].stream_calls >= MAX_RETRIES

\* C31: during result application the completed value passed to the progress
\* callback advances per occurrence: whenever the apply loop has reported,
\* the value it passed is at least the number of occurrences written by
\* then, so with duplicates it goes beyond the number of unique tasks.  (The
\* loop reports after the occurrences of index 0, 10, 20, ..)
C31_ProgressPerOccurrence ==
  LET LastReport(a) ==
        ((a - 1) \div APPLY_REPORT_EVERY) * APPLY_REPORT_EVERY + 1
  IN  parallel /\ mainPc = "apply" /\ applyIdx > 0 =>
        callback_n >= LastReport(applyIdx)

\* C32: the completed count never decreases, and every completed value
\* passed to the progress callback lies between 0 and the total (the number
\* of occurrences), also in runs in which writing to an occurrence fails and
\* is skipped.
C32_CompletedWithinTotal ==
  /\ [](callback_n <= Len(paragraphs_data))
  /\ [][progress_n' >= progress_n /\ callback_n' >= callback_n]_vars

\* C33: the tallies are per run and separated by source: once a run has
\* started, total_tokens_received is the sum of the completion tokens of
\* that run's service responses; total_cached_tokens is, in a parallel run,
\* the recorded usage of the unique texts found in the cache, and in a
\* sequential or completed run the recorded usage of the units served from
\* the cache; during the run neither tally decreases, a cache hit leaves
\* total_tokens_received alone and a service response leaves
\* total_cached_tokens alone.
C33_TalliesPerRunAndSource ==
  /\ [](mainPc # "start" =>
         /\ total_tokens_received =
              SumSeq([k \in Units |->
                        tasks[k].usages * CompletionTokens(UnitText(k))])
         /\ parallel =>
              total_cached_tokens = RecordedUsage({t \in DocTexts : InCacheFile(t)})
         /\ ~parallel \/ outcome = "completed" =>
              total_cached_tokens =
                SumSeq([k \in Units |->
                          IF tasks[k].cache_hit
                          THEN CacheGet(cache, UnitText(k)).usage ELSE 0]))
  /\ [][mainPc # "start" =>
          /\ total_tokens_received' >= total_tokens_received
          /\ total_cached_tokens' >= total_cached_tokens
          /\ \A k \in Units :
               /\ tasks'[k].cache_hit /\ ~tasks[k].cache_hit =>
                    total_tokens_received' = total_tokens_received
               /\ tasks'[k].usages > tasks[k].usages =>
                    total_cached_tokens' = total_cached_tokens]_vars

\* C33's case: a sequential run in a process that has run before has
\* completed with its first occurrence answered by the service and its
\* second by the record the first one left
C33_BothSourcesCounted ==
  /\ ~parallel
  /\ outcome = "completed"
  /\ Len(paragraphs_data) = 2
  /\ tasks[1].usages = 1
  /\ tasks[2].cache_hit
  /\ total_tokens_received = CompletionTokens("Hello")
  /\ total_cached_tokens = CompletionTokens("Hello")

\* occurrences the apply loop went past without writing to them
Skipped == {i \in 1..applyIdx : output[i] = NoValue}

\* C34 as stated: a parallel run in which writing to an occurrence raised
\* does not complete: it ends by raising, with nothing saved.
C34_WriteFailureAborts ==
  parallel /\ mainPc = "end" /\ Skipped # {} => outcome # "completed" /\ ~saved

\* C34 amended: a failed save ends the run by raising that failure, after
\* the tasks have settled and with nothing saved; an occurrence whose
\* writing raises is skipped and the run goes on with the next occurrence.
C34_SaveFailureAborts ==
  /\ [](parallel /\ mainPc = "end" =>
         \/ outcome = "completed" /\ saved
         \/ outcome = "OSError" /\ ~saved /\ AllDone /\ bar_closed)
  /\ [][parallel /\ mainPc = "apply" /\ applyIdx' = applyIdx + 1 =>
          mainPc' = "apply" /\ pending' = pending /\ outcome' = outcome]_vars

\* C34's case: writing to the first occurrence raised, the second was
\* written, and then the save failed
C34_SkippedThenSaveFailed ==
  /\ parallel
  /\ mainPc = "end"
  /\ outcome = "OSError"
  /\ Skipped = {1}
  /\ Len(paragraphs_data) = 2
  /\ output[2] # NoValue

\* C35: the whole-response call is made exactly when a streamed response has
\* ended without usage, and it only recovers usage: whether it returns or
\* fails, the unit (unless cancelled) ends at once with the text collected
\* from the stream, trimmed.
C35_FallbackOnlyRecoversUsage ==
  [][\A k \in Units :
       /\ tasks'[k].whole_calls > tasks[k].whole_calls <=>
            /\ tasks[k].pc = "call"
            /\ tasks'[k].pc = "fallback"
            /\ tasks[k].got = reply_chunks
            /\ tasks[k].token_usage = 0
       /\ tasks[k].pc = "fallback" /\ tasks'[k].pc # "fallback"
            /\ ~tasks[k].cancel_requested =>
              /\ tasks'[k].pc = "done"
              /\ tasks'[k].result = Stripped(tasks[k], UnitText(k))]_vars


\* C36: only eligible paragraphs are touched.  Every unit of work (service
\* call, cache access) is for the trimmed text of a paragraph whose style is in
\* the target set and whose trimmed text is not empty, write-back goes to such
\* paragraphs only, and in a completed run every such paragraph, in the body
\* or in a table, has received exactly one translation or sentinel.
C36_OnlyEligibleTouched ==
  LET w == Walk(document)
      wanted == {j \in DOMAIN w :
                   w[j].style \in TargetStyles /\ Trim(w[j].text) # ""}
      places == all_paragraphs(document)
      Appended(t) ==
        Sentinels \cup {Translation(t), CachedTranslation(t), EmptyString}
  IN  /\ \A k \in Units : \E j \in wanted : UnitText(k) = Trim(w[j].text)
      /\ DOMAIN output = DOMAIN places
      /\ \A i \in DOMAIN output : places[i] \in wanted
      /\ outcome = "completed" =>
           \A j \in wanted :
             /\ Cardinality({i \in DOMAIN output : places[i] = j}) = 1
             /\ \A i \in DOMAIN output :
                  places[i] = j => output[i] \in Appended(Trim(w[j].text))


\* C37: the two modes agree on results.  What a completed run whose service
\* calls all succeeded has written and the records it leaves in the cache are
\* given by the document, the cache contents and the service alone, whether
\* the run was sequential or parallel and whatever the concurrency limit:
\* every occurrence holds the cache's or the service's translation of its
\* text, and the cache is left with the record of every text of the document
\* that has a translation.
C37_ModesAgree ==
  outcome = "completed" /\ faults = 0 =>
    /\ \A i \in DOMAIN output : output[i] = Expected(paragraphs_data[i])
    /\ use_cache =>
         \A t \in DocTexts :
           Truthy(Fresh(t)) =>
             /\ Truthy(CacheGet(cache_file, t).translation)
             /\ CacheGet(cache_file, t) = CacheGet(cache, t)

====
